---- MODULE Spec2Model ----
(***************************************************************************)
(* A model of electron.py: a command line assistant that loads settings,   *)
(* keeps a bounded window of conversation turns, calls a remote completion *)
(* endpoint and appends every turn to a line-delimited JSON history file.  *)
(*                                                                         *)
(* Text is modelled as a sequence of characters, so that strip, lower,     *)
(* split, the JSON encoding of a turn and the line splitting of the        *)
(* history file are computed the way the Python code computes them.        *)
(* A serialized turn is the character sequence                             *)
(*        {  <role>  "  <escaped content>  "  }                            *)
(* in which the single symbol <role> stands for the text                   *)
(* "role": "user", "content":  (or the same with "assistant").             *)
(* The values of the settings are sequences of symbols too, a symbol being *)
(* a character or a run of characters that is never split ("gpt-4o-mini"). *)
(***************************************************************************)
EXTENDS Integers, Sequences, FiniteSets, TLC

VARIABLES
    pc,                  \* where main() is: Start, AskSetKey, InputKey, AskSaveKey,
                         \* AwaitingInput, Dispatching, Completing, Exited
    exit_code,           \* Some(status given to sys.exit), Nothing while running
    console,             \* what the last step rendered with msg()
    settings_file,       \* settings.json on disk
    environ,             \* Some(value of the API_KEY environment variable), Nothing if unset
    argv,                \* sys.argv[1:]
    config,              \* Some(main's config dict), Nothing before it is loaded
    api_key,             \* main's local api_key (line 310)
    client,              \* Some(key the OpenAI client was constructed with), Nothing before
    entered_key,         \* request_for_api_key's local api_key
    user_message,        \* main's user_message
    interaction_history, \* main's interaction_history: the window
    history_file,        \* history.json on disk: whether it exists, and its characters
    calls,               \* number of completion calls issued
    last_request,        \* messages of the last completion call
    hist_base,           \* history store runs: the file the run started from
    hist_written,        \* history store runs: turns written since, in order
    hist_op,             \* history store runs: the last call, "start" before any
    hist_limit,          \* history store runs: limit of the last load_history call
    hist_loaded,         \* history store runs: result of the last load_history call
    set_calls            \* settings store runs: the calls made, in order

vars == <<pc, exit_code, console, settings_file, environ, argv, config, api_key,
          client, entered_key, user_message, interaction_history, history_file,
          calls, last_request, hist_base, hist_written, hist_op, hist_limit,
          hist_loaded, set_calls>>

session_vars == <<pc, exit_code, console, settings_file, environ, argv, config,
                  api_key, client, entered_key, user_message, interaction_history,
                  calls, last_request>>

store_vars == <<hist_base, hist_written, hist_op, hist_limit, hist_loaded>>

settings_vars == <<set_calls>>

\* an optional value: Python's None is Nothing
Nothing == <<>>
Some(x) == <<x>>
IsSome(opt) == Len(opt) = 1
Value(opt) == opt[1]

\* a file on disk
NoFile == [exists |-> FALSE, text |-> <<>>]
File(text) == [exists |-> TRUE, text |-> text]

(***************************************************************************)
(* Program constants.                                                      *)
(***************************************************************************)
INTERACTION_HISTORY_LIMIT == 10

REQUIRED_KEYS == <<"model", "api_key", "system_message", "assistant_name", "user_name">>

DEFAULT_SETTINGS ==
    [model |-> <<"gpt-4o-mini">>, api_key |-> <<>>,
     system_message |-> <<"You are ", "{assistant_name}",
                          ", a command line AI assistant for ", "{user_name}",
                          " who knows everything.">>,
     assistant_name |-> <<"Electron">>, user_name |-> <<"User">>]

EXIT_COMMANDS ==
    { <<"q">>, <<"q","u","i","t">>, <<"e","x","i","t">>, <<"b","y","e">>,
      <<"c","l","o","s","e">>, <<"s","t","o","p">>, <<"e","n","d">>,
      <<"t","e","r","m","i","n","a","t","e">>, <<"l","e","a","v","e">> }

CONFIRMATION_COMMANDS ==
    { <<"y","e","s">>, <<"y">>, <<"y","e","a","h">>, <<"y","e","p">>,
      <<"s","u","r","e">>, <<"o","k">>, <<"o","k","a","y">>, <<"f","i","n","e">> }

(***************************************************************************)
(* str methods, on sequences of characters.                                *)
(***************************************************************************)
Whitespace == {" ", "\n", "\t"}

IsSpace(c) == c \in Whitespace

RECURSIVE lstrip(_)
lstrip(s) == IF s # <<>> /\ IsSpace(Head(s)) THEN lstrip(Tail(s)) ELSE s

RECURSIVE rstrip(_)
rstrip(s) ==
    IF s # <<>> /\ IsSpace(s[Len(s)]) THEN rstrip(SubSeq(s, 1, Len(s) - 1)) ELSE s

\* str.strip()
strip(s) == rstrip(lstrip(s))

LowerChar(c) ==
    CASE c = "H" -> "h" [] c = "E" -> "e" [] c = "L" -> "l" [] c = "P" -> "p"
      [] c = "Q" -> "q" [] c = "Y" -> "y" [] c = "I" -> "i"
      [] OTHER -> c

\* str.lower()
lower(s) == [i \in 1..Len(s) |-> LowerChar(s[i])]

\* length of the longest prefix of s holding no character of stops
PrefixLen(s, stops) ==
    CHOOSE n \in 0..Len(s) :
        /\ \A j \in 1..n : s[j] \notin stops
        /\ n < Len(s) => s[n + 1] \in stops

\* str.split() with no argument: the whitespace-delimited tokens
RECURSIVE split(_)
split(s) ==
    LET t == lstrip(s)
        n == PrefixLen(t, Whitespace)
    IN  IF t = <<>> THEN <<>>
        ELSE <<SubSeq(t, 1, n)>> \o split(SubSeq(t, n + 1, Len(t)))

\* " ".join(words)
RECURSIVE join(_)
join(words) ==
    IF words = <<>> THEN <<>>
    ELSE IF Len(words) = 1 THEN words[1]
    ELSE words[1] \o <<" ">> \o join(Tail(words))

\* seq[start:] with Python's treatment of negative and oversized indices
slice_from(seq, start) ==
    LET n == Len(seq)
        first == IF start < 0 THEN (IF n + start < 0 THEN 0 ELSE n + start)
                 ELSE (IF start > n THEN n ELSE start)
    IN  SubSeq(seq, first + 1, n)

IsDigit(c) == c \in {"0", "1", "2", "3", "4", "5", "6", "7", "8", "9"}

DigitValue(c) ==
    CASE c = "0" -> 0 [] c = "1" -> 1 [] c = "2" -> 2 [] c = "3" -> 3 [] c = "4" -> 4
      [] c = "5" -> 5 [] c = "6" -> 6 [] c = "7" -> 7 [] c = "8" -> 8 [] c = "9" -> 9

RECURSIVE DigitsValue(_)
DigitsValue(s) ==
    IF s = <<>> THEN 0 ELSE DigitsValue(SubSeq(s, 1, Len(s) - 1)) * 10 + DigitValue(s[Len(s)])

\* int(token): [ok |-> FALSE] stands for ValueError
int(token) ==
    LET signed == token # <<>> /\ token[1] \in {"-", "+"}
        digits == IF signed THEN Tail(token) ELSE token
    IN  IF digits # <<>> /\ \A i \in 1..Len(digits) : IsDigit(digits[i])
        THEN [ok |-> TRUE,
              value |-> IF signed /\ token[1] = "-" THEN 0 - DigitsValue(digits)
                        ELSE DigitsValue(digits)]
        ELSE [ok |-> FALSE, value |-> 0]

(***************************************************************************)
(* json.dumps and json.loads of one turn.                                  *)
(***************************************************************************)
Roles == {"user", "assistant"}

Failure == [ok |-> FALSE, value |-> <<>>]

\* the body of a JSON string literal: quote, backslash and newline are escaped
RECURSIVE json_escape(_)
json_escape(s) ==
    IF s = <<>> THEN <<>>
    ELSE (CASE Head(s) = "\n" -> <<"\\", "n">>
            [] Head(s) = "\\" -> <<"\\", "\\">>
            [] Head(s) = "\"" -> <<"\\", "\"">>
            [] OTHER -> <<Head(s)>>) \o json_escape(Tail(s))

\* the inverse scan; a bare quote, a bare newline or a bad escape does not decode
RECURSIVE json_unescape(_)
json_unescape(s) ==
    IF s = <<>> THEN [ok |-> TRUE, value |-> <<>>]
    ELSE IF Head(s) = "\\"
    THEN IF Len(s) >= 2 /\ s[2] \in {"n", "\\", "\""}
         THEN LET rest == json_unescape(SubSeq(s, 3, Len(s)))
              IN  [ok |-> rest.ok,
                   value |-> <<IF s[2] = "n" THEN "\n" ELSE s[2]>> \o rest.value]
         ELSE Failure
    ELSE IF Head(s) \in {"\"", "\n"} THEN Failure
    ELSE LET rest == json_unescape(Tail(s))
         IN  [ok |-> rest.ok, value |-> <<Head(s)>> \o rest.value]

\* json.dumps(interaction)
json_dumps(interaction) ==
    <<"{", interaction.role, "\"">> \o json_escape(interaction.content) \o <<"\"", "}">>

\* json.loads(line): [ok |-> FALSE] stands for json.JSONDecodeError
json_loads(line) ==
    LET n == Len(line)
        body == json_unescape(SubSeq(line, 4, n - 2))
    IN  IF /\ n >= 5
           /\ line[1] = "{" /\ line[2] \in Roles /\ line[3] = "\""
           /\ line[n - 1] = "\"" /\ line[n] = "}"
           /\ body.ok
        THEN [ok |-> TRUE, value |-> [role |-> line[2], content |-> body.value]]
        ELSE Failure

(***************************************************************************)
(* json.dump and json.load of a settings document: an object whose keys    *)
(* are single symbols and whose values are strings.  The document is       *)
(* written as  { "key" : "value" , ... }  with the keys in the order of    *)
(* REQUIRED_KEYS; indentation is left out.                                 *)
(***************************************************************************)
\* a JSON string literal
json_string(s) == <<"\"">> \o json_escape(s) \o <<"\"">>

RECURSIVE json_members(_, _)
json_members(doc, keys) ==
    IF keys = <<>> THEN <<>>
    ELSE IF Head(keys) \notin DOMAIN doc THEN json_members(doc, Tail(keys))
    ELSE LET rest == json_members(doc, Tail(keys))
         IN  json_string(<<Head(keys)>>) \o <<":">> \o json_string(doc[Head(keys)])
             \o (IF Len(rest) = 0 THEN <<>> ELSE <<",">> \o rest)

\* a json.dump that leaves the api_key member out
json_dump_keyless(doc) ==
    <<"{">> \o json_members([k \in DOMAIN doc \ {"api_key"} |-> doc[k]], REQUIRED_KEYS)
    \o <<"}">>

\* json.dump(config, file, indent=4): the text written
json_dump(doc) == <<"{">> \o json_members(doc, REQUIRED_KEYS) \o <<"}">>

\* position of the quote that closes the string literal whose body starts at i;
\* 0 if there is none
RECURSIVE string_end(_, _)
string_end(s, i) ==
    IF i > Len(s) THEN 0
    ELSE IF s[i] = "\\" THEN string_end(s, i + 2)
    ELSE IF s[i] = "\"" THEN i
    ELSE string_end(s, i + 1)

RECURSIVE json_parse_members(_, _)
json_parse_members(t, doc) ==
    LET e == IF Len(t) >= 1 /\ t[1] = "\"" THEN string_end(t, 2) ELSE 0
        key == json_unescape(SubSeq(t, 2, e - 1))
        f == IF e > 0 /\ Len(t) >= e + 2 /\ t[e + 1] = ":" /\ t[e + 2] = "\""
             THEN string_end(t, e + 3) ELSE 0
        val == json_unescape(SubSeq(t, e + 3, f - 1))
        ext == [k \in DOMAIN doc \cup {key.value[1]} |->
                   IF k = key.value[1] THEN val.value ELSE doc[k]]
    IN  IF e = 0 \/ f = 0 \/ Len(t) < f + 1 THEN Failure
        ELSE IF ~key.ok \/ ~val.ok \/ Len(key.value) # 1 THEN Failure
        ELSE IF t[f + 1] = "}"
        THEN (IF Len(t) = f + 1 THEN [ok |-> TRUE, value |-> ext] ELSE Failure)
        ELSE IF t[f + 1] = "," THEN json_parse_members(SubSeq(t, f + 2, Len(t)), ext)
        ELSE Failure

\* json.load(file): [ok |-> FALSE] stands for json.JSONDecodeError
json_load(text) ==
    IF Len(text) < 2 \/ text[1] # "{" THEN Failure
    ELSE IF Len(text) = 2
    THEN (IF text[2] = "}" THEN [ok |-> TRUE, value |-> <<>>] ELSE Failure)
    ELSE json_parse_members(Tail(text), <<>>)

(***************************************************************************)
(* The settings store.  A settings file is absent, empty, not JSON         *)
(* ("garbage": a document cut short), or the text of a JSON object.        *)
(***************************************************************************)
SettingsAbsent == NoFile
SettingsEmpty == File(<<>>)
SettingsGarbage == File(<<"{", "\"", "model", "\"", ":", "\"", "gpt-4o-mini">>)
SettingsObject(doc) == File(json_dump(doc))

\* a write_default_config that writes whatever it finds
write_default_config_always(file) == File(json_dump(DEFAULT_SETTINGS))

\* a write_default_config that writes whenever the file cannot be used
write_default_config_unusable(file) ==
    IF ~file.exists \/ ~json_load(file.text).ok THEN File(json_dump(DEFAULT_SETTINGS))
    ELSE file

\* write_default_config(config_file_path): the file afterwards
write_default_config(file) ==
    IF ~file.exists \/ Len(file.text) = 0 THEN File(json_dump(DEFAULT_SETTINGS))
    ELSE file

MissingKeys(doc) == {i \in 1..Len(REQUIRED_KEYS) : REQUIRED_KEYS[i] \notin DOMAIN doc}

\* a check that always reports the first required key
FirstMissing_first(doc) == REQUIRED_KEYS[1]

FirstMissing(doc) ==
    REQUIRED_KEYS[CHOOSE i \in MissingKeys(doc) : \A j \in MissingKeys(doc) : i <= j]

\* load_settings(config_file_path): the exception raised ("" if none) with the
\* key its message names, the settings returned (Nothing when it raises) and
\* the file afterwards
load_settings(file) ==
    LET parsed == json_load(file.text)
    IN  IF ~file.exists \/ ~parsed.ok
        THEN [raised |-> "", key |-> "", config |-> Some(DEFAULT_SETTINGS),
              file |-> write_default_config(file)]
        ELSE IF MissingKeys(parsed.value) # {}
        THEN [raised |-> "ValueError", key |-> FirstMissing(parsed.value),
              config |-> Nothing, file |-> file]
        ELSE [raised |-> "", key |-> "", config |-> Some(parsed.value), file |-> file]

(***************************************************************************)
(* The history store.                                                      *)
(***************************************************************************)
\* the lines a text-mode file iterates over, without their line ends
RECURSIVE file_lines(_)
file_lines(text) ==
    LET n == PrefixLen(text, {"\n"})
    IN  IF text = <<>> THEN <<>>
        ELSE <<SubSeq(text, 1, n)>> \o file_lines(SubSeq(text, n + 2, Len(text)))

\* load_history's generator: every line of the file, stripped
read_lines(file) ==
    LET lines == file_lines(file) IN [i \in 1..Len(lines) |-> strip(lines[i])]

NonEmpty(line) == line # <<>>

\* load_history(history_file_path, limit)
load_history(file, limit) ==
    IF ~file.exists \/ Len(file.text) = 0 THEN <<>>
    ELSE LET chosen == IF IsSome(limit) /\ Value(limit) # 0
                       THEN slice_from(read_lines(file.text), 0 - Value(limit))
                       ELSE read_lines(file.text)
             kept == SelectSeq(chosen, NonEmpty)
             parsed == [i \in 1..Len(kept) |-> json_loads(kept[i])]
         IN  IF \E i \in 1..Len(kept) : ~parsed[i].ok THEN <<>>
             ELSE [i \in 1..Len(kept) |-> parsed[i].value]

\* the log opened with mode "w" instead of "a": its content is dropped
open_append_truncating(file) == File(<<>>)

\* open(history_file_path, "a"): creates the file when it is missing
open_append(file) == File(file.text)

\* the write without its line end
write_to_history_noeol(file, interaction) ==
    File(file.text \o json_dumps(interaction))

\* write_to_history(file, interaction) on a handle opened for appending
write_to_history(file, interaction) ==
    File(file.text \o json_dumps(interaction) \o <<"\n">>)

(***************************************************************************)
(* Runs of the history store alone: a history file of a few lines, then    *)
(* any order of write_to_history and load_history calls.                   *)
(***************************************************************************)
MaxLines == 3
MaxWrites == 2
MaxLimit == 3

UserHi == [role |-> "user", content |-> <<"h", "i">>]
ReplyOk == [role |-> "assistant", content |-> <<"o", "\n", "k">>]
ReplySlash == [role |-> "assistant", content |-> <<"\\", "n", "\"">>]
Sentinel == [role |-> "assistant", content |-> <<"n", "u", "l", "l">>]

StoreTurns == {UserHi, ReplyOk, ReplySlash}

\* lines a history file may hold: two turns, a blank line, a truncated record
StoreLines == {json_dumps(UserHi), json_dumps(ReplyOk), <<" ">>, <<"{", "user">>}

RECURSIVE FilesOf(_)
FilesOf(n) ==
    IF n = 0 THEN {<<>>}
    ELSE {f \o l \o <<"\n">> : f \in FilesOf(n - 1), l \in StoreLines}

StoreFiles == {NoFile} \cup {File(text) : text \in UNION {FilesOf(n) : n \in 0..MaxLines}}

Idle ==
    /\ pc = "Idle" /\ exit_code = Nothing /\ console = <<>>
    /\ settings_file = SettingsAbsent /\ environ = Nothing /\ argv = <<>>
    /\ config = Nothing /\ api_key = <<>> /\ client = Nothing /\ entered_key = <<>>
    /\ user_message = <<>> /\ interaction_history = <<>>
    /\ calls = 0 /\ last_request = <<>>
    /\ set_calls = <<>>

InitStore ==
    /\ Idle
    /\ history_file \in StoreFiles
    /\ hist_base = history_file
    /\ hist_written = <<>>
    /\ hist_op = "start"
    /\ hist_limit = Nothing
    /\ hist_loaded = <<>>

StoreAppend(turn) ==
    /\ Len(hist_written) < MaxWrites
    /\ history_file' = write_to_history(open_append(history_file), turn)
    /\ hist_written' = Append(hist_written, turn)
    /\ hist_op' = "write"
    /\ hist_limit' = Nothing
    /\ hist_loaded' = <<>>
    /\ UNCHANGED <<session_vars, settings_vars, hist_base>>

StoreLoadAll ==
    /\ hist_op' = "load"
    /\ hist_limit' = Nothing
    /\ hist_loaded' = load_history(history_file, Nothing)
    /\ UNCHANGED <<session_vars, settings_vars, history_file, hist_base, hist_written>>

StoreLoadTail(k) ==
    /\ hist_op' = "load"
    /\ hist_limit' = Some(k)
    /\ hist_loaded' = load_history(history_file, Some(k))
    /\ UNCHANGED <<session_vars, settings_vars, history_file, hist_base, hist_written>>

NextStore ==
    \/ \E turn \in StoreTurns : StoreAppend(turn)
    \/ StoreLoadAll
    \/ \E k \in 1..MaxLimit : StoreLoadTail(k)

SpecStore == InitStore /\ [][NextStore]_vars

(***************************************************************************)
(* Rendering: console holds the lines the last step printed with msg().    *)
(* A line is the format string, and the values substituted into it.        *)
(***************************************************************************)
Line(text, name, content, n) == [text |-> text, name |-> name, content |-> content, n |-> n]

Msg(text) == Line(text, <<>>, <<>>, Nothing)

\* msg(f"{user_name}", bold=True, end=": ") at the top of the loop
Prompt(cfg) == Line("{user_name}", cfg.user_name, <<>>, Nothing)

\* print_response(assistant_name, assistant_message)
print_response(assistant_name, assistant_message) ==
    Line("**{assistant_name}**: {assistant_message}", assistant_name, assistant_message, Nothing)

\* print_help_msg(assistant_name)
print_help_msg(assistant_name) ==
    Line("**{assistant_name}**: I am here to assist you with anything. ", assistant_name, <<>>, Nothing)

\* a print_history that shows the whole history whatever n is
print_history_untrimmed(user_name, assistant_name, file, n) ==
    LET history == load_history(file, Nothing)
        heading == IF IsSome(n) /\ Value(n) = 1 THEN Msg("## Last message")
                   ELSE IF ~IsSome(n) \/ Value(n) = 0
                   THEN Msg("## Full conversation history")
                   ELSE Line("## Last {n} messages", <<>>, <<>>, n)
    IN  IF Len(history) = 0
        THEN <<Msg("No conversations found. Start a discussion to create history!")>>
        ELSE <<heading, Msg("***")>>
             \o [i \in 1..Len(history) |->
                   Line("**{name}**: {content}",
                        IF history[i].role = "user" THEN user_name ELSE assistant_name,
                        history[i].content, Nothing)]
             \o <<Msg("***")>>

\* print_history(user_name, assistant_name, history_file_path, n): the lines printed
print_history(user_name, assistant_name, file, n) ==
    LET history == load_history(file, Nothing)
        shown == IF IsSome(n) THEN slice_from(history, 0 - Value(n)) ELSE history
        heading == IF IsSome(n) /\ Value(n) = 1 THEN Msg("## Last message")
                   ELSE IF ~IsSome(n) \/ Value(n) = 0
                   THEN Msg("## Full conversation history")
                   ELSE Line("## Last {n} messages", <<>>, <<>>, n)
    IN  IF Len(history) = 0
        THEN <<Msg("No conversations found. Start a discussion to create history!")>>
        ELSE <<heading, Msg("***")>>
             \o [i \in 1..Len(shown) |->
                   Line("**{name}**: {content}",
                        IF shown[i].role = "user" THEN user_name ELSE assistant_name,
                        shown[i].content, Nothing)]
             \o <<Msg("***")>>

(***************************************************************************)
(* The completion client.                                                  *)
(***************************************************************************)
\* config["system_message"].format(assistant_name=..., user_name=...)
RECURSIVE str_format(_, _)
str_format(template, cfg) ==
    IF template = <<>> THEN <<>>
    ELSE (CASE Head(template) = "{assistant_name}" -> cfg.assistant_name
            [] Head(template) = "{user_name}" -> cfg.user_name
            [] OTHER -> <<Head(template)>>) \o str_format(Tail(template), cfg)

system_message(cfg) == str_format(cfg.system_message, cfg)

\* initialize_client(api_key)
initialize_client(key) == Some(key)

\* generate_response: the messages sent to client.chat.completions.create
generate_response(cfg, history) ==
    <<[role |-> "system", content |-> system_message(cfg)]>> \o history

(***************************************************************************)
(* main(): one session.                                                    *)
(***************************************************************************)
MaxTurns == 2

W_help == <<"h", "e", "l", "p">>
W_history == <<"h", "i", "s", "t", "o", "r", "y">>

\* lines the user may type at a prompt
InputLines ==
    { <<>>, <<" ", " ">>,
      <<"e", "x", "i", "t">>, <<" ", "Q", " ">>, <<"b", "y", "e", " ", "h", "i">>,
      <<"H", "E", "L", "P">>, W_help \o <<" ", "h", "i">>,
      W_history, W_history \o <<" ", "1">>, W_history \o <<" ", "2">>,
      W_history \o <<" ", "x">>,
      <<" ", "H", "i">> }

\* answers the user may give to a yes/no question of request_for_api_key
Answers == { <<"Y", "e", "s", " ">>, <<"n", "o">>, <<>> }

\* lines the user may type when asked for the API key
KeyLines == { <<>>, <<" ">>, <<" ", "u", "k">> }

\* sys.argv[1:]
Arguments ==
    { <<>>, << <<"h", "i">> >>, << <<" ">> >>, << W_history, <<"1">> >> }

\* values of the API_KEY environment variable
Environments == {Nothing, Some(<<>>), Some(<<"e", "k">>)}

KeyedSettings == [DEFAULT_SETTINGS EXCEPT !.api_key = <<"s", "k">>]

Without(doc, key) == [k \in DOMAIN doc \ {key} |-> doc[k]]

SettingsFiles ==
    {SettingsAbsent, SettingsEmpty, SettingsGarbage,
     SettingsObject(DEFAULT_SETTINGS), SettingsObject(KeyedSettings)}
    \cup {SettingsObject(Without(KeyedSettings, REQUIRED_KEYS[i])) : i \in 1..Len(REQUIRED_KEYS)}

RECURSIVE Exchanges(_)
Exchanges(n) ==
    IF n = 0 THEN <<>>
    ELSE Exchanges(n - 1) \o json_dumps(UserHi) \o <<"\n">> \o json_dumps(ReplyOk) \o <<"\n">>

\* history files a session may find
HistoryFiles ==
    { NoFile, File(Exchanges(1)), File(Exchanges(5)),
      File(<<"{", "user", "\n">> \o Exchanges(5)),
      File(Exchanges(1) \o <<" ", "\n">>),
      \* the log a session leaves whose only completion call failed
      File(json_dumps([role |-> "user", content |-> <<"H", "i">>]) \o <<"\n">>
           \o json_dumps(Sentinel) \o <<"\n">>) }

Init ==
    /\ pc = "Start" /\ exit_code = Nothing /\ console = <<>>
    /\ settings_file \in SettingsFiles
    /\ environ \in Environments
    /\ argv \in Arguments
    /\ config = Nothing /\ api_key = <<>> /\ client = Nothing /\ entered_key = <<>>
    /\ user_message = <<>> /\ interaction_history = <<>>
    /\ history_file \in HistoryFiles
    /\ calls = 0 /\ last_request = <<>>
    /\ hist_base = history_file /\ hist_written = <<>> /\ hist_op = "start"
    /\ hist_limit = Nothing /\ hist_loaded = <<>>
    /\ set_calls = <<>>

Fixed == UNCHANGED <<environ, argv, store_vars, settings_vars>>

\* exit_assistant(status, message)
exit_assistant(status, message) ==
    /\ pc' = "Exited"
    /\ exit_code' = Some(status)
    /\ console' = <<Msg(message)>>

\* main's handler of any other exception (lines 373-376)
fatal_error == exit_assistant(1, "Unexpected error: {error}, see logs for more info.")

\* lines 318-332: the client is built, the window loaded, the log opened for
\* appending, and the loop entered with the startup argument as first input
StartSession(cfg, key) ==
    /\ config' = Some(cfg)
    /\ client' = initialize_client(key)
    /\ user_message' = join(argv)
    /\ interaction_history' = load_history(history_file, Some(INTERACTION_HISTORY_LIMIT))
    /\ history_file' = open_append(history_file)
    /\ pc' = IF Len(join(argv)) = 0 THEN "AwaitingInput" ELSE "Dispatching"
    /\ console' = IF Len(join(argv)) = 0 THEN <<Prompt(cfg)>>
                  ELSE <<Prompt(cfg), Line("{user_message}", <<>>, join(argv), Nothing)>>
    /\ UNCHANGED <<exit_code, calls, last_request>>

\* lines 307-317, up to the first prompt of request_for_api_key
LoadSettings ==
    /\ pc = "Start"
    /\ LET loaded == load_settings(settings_file)
           fromEnv == IsSome(environ) /\ Len(Value(environ)) > 0
       IN  /\ settings_file' = loaded.file
           /\ IF loaded.raised # ""
              THEN /\ fatal_error
                   /\ UNCHANGED <<config, api_key, client, user_message,
                                  interaction_history, history_file, calls, last_request>>
              ELSE /\ api_key' = Value(loaded.config).api_key
                   /\ IF Len(Value(loaded.config).api_key) = 0 /\ ~fromEnv
                      THEN /\ config' = loaded.config
                           /\ pc' = "AskSetKey"
                           /\ console' = <<Msg("Your API key is missing. Would you like to set it now?")>>
                           /\ UNCHANGED <<exit_code, client, user_message,
                                          interaction_history, history_file, calls,
                                          last_request>>
                      ELSE StartSession(
                               IF Len(Value(loaded.config).api_key) = 0
                               THEN [Value(loaded.config) EXCEPT !.api_key = Value(environ)]
                               ELSE Value(loaded.config),
                               Value(loaded.config).api_key)
    /\ UNCHANGED entered_key
    /\ Fixed

\* request_for_api_key, lines 259-262 and 283-284: the answer to "set it now?"
AnswerSetKey(line) ==
    /\ pc = "AskSetKey"
    /\ IF lower(strip(line)) \in CONFIRMATION_COMMANDS
       THEN /\ pc' = "InputKey"
            /\ console' = <<Msg("Input your API key")>>
            /\ UNCHANGED exit_code
       ELSE exit_assistant(1, "Set your API key and try again.")
    /\ entered_key' = <<>>
    /\ UNCHANGED <<settings_file, config, api_key, client, user_message,
                   interaction_history, history_file, calls, last_request>>
    /\ Fixed

\* request_for_api_key, lines 263-265: one round of "while not api_key"
InputKey(line) ==
    /\ pc = "InputKey"
    /\ entered_key' = strip(line)
    /\ pc' = IF Len(strip(line)) = 0 THEN "InputKey" ELSE "AskSaveKey"
    /\ console' = IF Len(strip(line)) = 0 THEN <<>>
                  ELSE <<Msg("Save API key for future use?")>>
    /\ UNCHANGED <<exit_code, settings_file, config, api_key, client, user_message,
                   interaction_history, history_file, calls, last_request>>
    /\ Fixed

\* the read-modify-write of lines 269-274; json.load fails on a file that is no
\* JSON, and the failure is logged
save_api_key(file, key) ==
    LET parsed == json_load(file.text)
    IN  IF file.exists /\ parsed.ok
        THEN File(json_dump([k \in DOMAIN parsed.value \cup {"api_key"} |->
                                IF k = "api_key" THEN key ELSE parsed.value[k]]))
        ELSE file

\* request_for_api_key, lines 266-282, then main from line 317
AnswerSaveKey(line) ==
    /\ pc = "AskSaveKey"
    /\ settings_file' = IF lower(strip(line)) \in CONFIRMATION_COMMANDS
                        THEN save_api_key(settings_file, entered_key)
                        ELSE settings_file
    /\ StartSession([Value(config) EXCEPT !.api_key = entered_key], api_key)
    /\ UNCHANGED <<api_key, entered_key>>
    /\ Fixed

\* lines 327-329: one round of "while not user_message"
ReadInput(line) ==
    /\ pc = "AwaitingInput"
    /\ user_message' = strip(line)
    /\ pc' = IF Len(strip(line)) = 0 THEN "AwaitingInput" ELSE "Dispatching"
    /\ console' = <<>>
    /\ UNCHANGED <<exit_code, settings_file, config, api_key, client, entered_key,
                   interaction_history, history_file, calls, last_request>>
    /\ Fixed

\* the match statement of lines 333-349: which case takes the tokens.  The guard
\* command[0] of the first case raises IndexError on an empty token list.
match_command(tokens) ==
    IF Len(tokens) = 0 THEN "IndexError"
    ELSE IF tokens[1] \in EXIT_COMMANDS THEN "exit"
    ELSE IF tokens[1] = W_help THEN "help"
    ELSE IF tokens[1] = W_history THEN "history"
    ELSE "message"

\* the match without .lower()
Tokens_cased == split(user_message)

Tokens == split(lower(user_message))

Kept == UNCHANGED <<settings_file, config, api_key, client, entered_key,
                    interaction_history, history_file, calls, last_request>>

\* line 333 raising IndexError, caught at line 373
DispatchError ==
    /\ pc = "Dispatching"
    /\ match_command(Tokens) = "IndexError"
    /\ fatal_error
    /\ UNCHANGED user_message
    /\ Kept
    /\ Fixed

\* lines 334-335
DispatchExit ==
    /\ pc = "Dispatching"
    /\ match_command(Tokens) = "exit"
    /\ exit_assistant(0, "Goodbye! See you later.")
    /\ UNCHANGED user_message
    /\ Kept
    /\ Fixed

\* lines 336-339
DispatchHelp ==
    /\ pc = "Dispatching"
    /\ match_command(Tokens) = "help"
    /\ console' = <<print_help_msg(Value(config).assistant_name), Prompt(Value(config))>>
    /\ user_message' = <<>>
    /\ pc' = "AwaitingInput"
    /\ UNCHANGED exit_code
    /\ Kept
    /\ Fixed

\* lines 340-349
DispatchHistory ==
    /\ pc = "Dispatching"
    /\ match_command(Tokens) = "history"
    /\ LET args == Tail(Tokens)
           n == IF Len(args) = 0 THEN [ok |-> TRUE, value |-> 0] ELSE int(args[1])
           cfg == Value(config)
       IN  console' =
               (IF ~n.ok
                THEN <<Msg("Invalid argument for history. Please provide a number.")>>
                ELSE print_history(cfg.user_name, cfg.assistant_name, history_file,
                                   IF Len(args) = 0 THEN Nothing ELSE Some(n.value)))
               \o <<Prompt(cfg)>>
    /\ user_message' = <<>>
    /\ pc' = "AwaitingInput"
    /\ UNCHANGED exit_code
    /\ Kept
    /\ Fixed

\* the user turn written to the log only once the call has returned
SubmitMessage_unlogged ==
    /\ pc = "Dispatching"
    /\ match_command(Tokens) = "message"
    /\ calls < MaxTurns
    /\ LET user_interaction == [role |-> "user", content |-> user_message]
       IN  /\ interaction_history' = Append(interaction_history, user_interaction)
           /\ last_request' = generate_response(Value(config),
                                                Append(interaction_history, user_interaction))
    /\ calls' = calls + 1
    /\ pc' = "Completing"
    /\ console' = <<>>
    /\ UNCHANGED <<exit_code, settings_file, config, api_key, client, entered_key,
                   user_message, history_file>>
    /\ Fixed

\* the completion call issued with the window as it was before the user turn
submit_message_stale ==
    /\ pc = "Dispatching"
    /\ match_command(Tokens) = "message"
    /\ LET user_interaction == [role |-> "user", content |-> user_message]
       IN  /\ interaction_history' = Append(interaction_history, user_interaction)
           /\ history_file' = write_to_history(history_file, user_interaction)
           /\ last_request' = generate_response(Value(config), interaction_history)
    /\ calls' = calls + 1
    /\ pc' = "Completing"
    /\ console' = <<>>
    /\ UNCHANGED <<exit_code, settings_file, config, api_key, client, entered_key,
                   user_message>>
    /\ Fixed

\* lines 350-355: the user turn joins the window and the log, and the
\* completion call is issued
submit_message ==
    /\ pc = "Dispatching"
    /\ match_command(Tokens) = "message"
    /\ LET user_interaction == [role |-> "user", content |-> user_message]
       IN  /\ interaction_history' = Append(interaction_history, user_interaction)
           /\ history_file' = write_to_history(history_file, user_interaction)
           /\ last_request' = generate_response(Value(config),
                                                Append(interaction_history, user_interaction))
    /\ calls' = calls + 1
    /\ pc' = "Completing"
    /\ console' = <<>>
    /\ UNCHANGED <<exit_code, settings_file, config, api_key, client, entered_key,
                   user_message>>
    /\ Fixed

\* the default case of the match statement, in a session of at most MaxTurns
\* completion calls
SubmitMessage == calls < MaxTurns /\ submit_message

\* replies the completion endpoint may give
Replies == {<<"o", "\n", "k">>}

\* a successful completion that never truncates the window
CompletionReturns_untruncated(assistant_message) ==
    /\ pc = "Completing"
    /\ LET ai_interaction == [role |-> "assistant", content |-> assistant_message]
       IN  /\ interaction_history' = Append(interaction_history, ai_interaction)
           /\ history_file' = write_to_history(history_file, ai_interaction)
    /\ console' = <<print_response(Value(config).assistant_name, assistant_message),
                    Prompt(Value(config))>>
    /\ user_message' = <<>>
    /\ pc' = "AwaitingInput"
    /\ UNCHANGED <<exit_code, settings_file, config, api_key, client, entered_key,
                   calls, last_request>>
    /\ Fixed

\* lines 356-361 and 369: the call returned assistant_message
CompletionReturns(assistant_message) ==
    /\ pc = "Completing"
    /\ LET ai_interaction == [role |-> "assistant", content |-> assistant_message]
       IN  /\ interaction_history' =
                  slice_from(Append(interaction_history, ai_interaction),
                             0 - INTERACTION_HISTORY_LIMIT)
           /\ history_file' = write_to_history(history_file, ai_interaction)
    /\ console' = <<print_response(Value(config).assistant_name, assistant_message),
                    Prompt(Value(config))>>
    /\ user_message' = <<>>
    /\ pc' = "AwaitingInput"
    /\ UNCHANGED <<exit_code, settings_file, config, api_key, client, entered_key,
                   calls, last_request>>
    /\ Fixed

\* a failure path that writes nothing to the log
CompletionRaises_silent ==
    /\ pc = "Completing"
    /\ console' = <<Msg("Error generating response: {error}"), Prompt(Value(config))>>
    /\ user_message' = <<>>
    /\ pc' = "AwaitingInput"
    /\ UNCHANGED <<exit_code, settings_file, config, api_key, client, entered_key,
                   interaction_history, history_file, calls, last_request>>
    /\ Fixed

\* a failure path that truncates the window as the success path does
CompletionRaises_truncating ==
    /\ pc = "Completing"
    /\ history_file' = write_to_history(history_file, Sentinel)
    /\ interaction_history' = slice_from(interaction_history, 0 - INTERACTION_HISTORY_LIMIT)
    /\ console' = <<Msg("Error generating response: {error}"), Prompt(Value(config))>>
    /\ user_message' = <<>>
    /\ pc' = "AwaitingInput"
    /\ UNCHANGED <<exit_code, settings_file, config, api_key, client, entered_key,
                   calls, last_request>>
    /\ Fixed

\* lines 362-369: the call raised an Exception
CompletionRaises ==
    /\ pc = "Completing"
    /\ history_file' = write_to_history(history_file, Sentinel)
    /\ console' = <<Msg("Error generating response: {error}"), Prompt(Value(config))>>
    /\ user_message' = <<>>
    /\ pc' = "AwaitingInput"
    /\ UNCHANGED <<exit_code, settings_file, config, api_key, client, entered_key,
                   interaction_history, calls, last_request>>
    /\ Fixed

Running ==
    {"Start", "AskSetKey", "InputKey", "AskSaveKey", "AwaitingInput", "Dispatching",
     "Completing"}

\* the interrupt handler passing the error status
Interrupt_status1 ==
    /\ pc \in Running
    /\ exit_assistant(1, "Session ended. Goodbye!")
    /\ UNCHANGED user_message
    /\ Kept
    /\ Fixed

\* lines 370-372: EOFError or KeyboardInterrupt anywhere inside main's try
Interrupt ==
    /\ pc \in Running
    /\ exit_assistant(0, "Session ended. Goodbye!")
    /\ UNCHANGED user_message
    /\ Kept
    /\ Fixed

Next ==
    \/ LoadSettings
    \/ \E line \in Answers : AnswerSetKey(line)
    \/ \E line \in KeyLines : InputKey(line)
    \/ \E line \in Answers : AnswerSaveKey(line)
    \/ \E line \in InputLines : ReadInput(line)
    \/ DispatchError
    \/ DispatchExit
    \/ DispatchHelp
    \/ DispatchHistory
    \/ SubmitMessage
    \/ \E reply \in Replies : CompletionReturns(reply)
    \/ CompletionRaises
    \/ Interrupt

Spec == Init /\ [][Next]_vars

(***************************************************************************)
(* Long sessions: the settings hold a key, no startup argument is given,   *)
(* and the user sends up to MaxLongTurns messages, so that a window that   *)
(* starts empty grows past INTERACTION_HISTORY_LIMIT.                      *)
(***************************************************************************)
MaxLongTurns == 6

\* lines the user may type in a long session
LongLines == { <<" ", "H", "i">>, W_help, W_history \o <<" ", "1">> }

\* replies the completion endpoint may give in a long session
LongReplies == Replies \cup {<<"n", "o">>}

\* history files a long session may find
LongFiles == { NoFile, File(Exchanges(4)) }

InitLong ==
    /\ pc = "Start" /\ exit_code = Nothing /\ console = <<>>
    /\ settings_file = SettingsObject(KeyedSettings)
    /\ environ = Nothing
    /\ argv = <<>>
    /\ config = Nothing /\ api_key = <<>> /\ client = Nothing /\ entered_key = <<>>
    /\ user_message = <<>> /\ interaction_history = <<>>
    /\ history_file \in LongFiles
    /\ calls = 0 /\ last_request = <<>>
    /\ hist_base = history_file /\ hist_written = <<>> /\ hist_op = "start"
    /\ hist_limit = Nothing /\ hist_loaded = <<>>
    /\ set_calls = <<>>

\* the default case of the match statement, in a session of at most
\* MaxLongTurns completion calls
LongSubmitMessage == calls < MaxLongTurns /\ submit_message

NextLong ==
    \/ LoadSettings
    \/ \E line \in LongLines : ReadInput(line)
    \/ DispatchHelp
    \/ DispatchHistory
    \/ LongSubmitMessage
    \/ \E reply \in LongReplies : CompletionReturns(reply)
    \/ CompletionRaises

SpecLong == InitLong /\ [][NextLong]_vars

(***************************************************************************)
(* The history command on its own: print_history applied to a history      *)
(* file, with the names of the default settings.                           *)
(***************************************************************************)
MaxShown == 4

InitRender == InitStore

\* print_history(config["user_name"], config["assistant_name"], HISTORY_FILE, n)
RenderHistory(n) ==
    /\ console' = print_history(DEFAULT_SETTINGS.user_name,
                                DEFAULT_SETTINGS.assistant_name, history_file, n)
    /\ hist_op' = "print"
    /\ hist_limit' = n
    /\ hist_loaded' = <<>>
    /\ UNCHANGED <<pc, exit_code, settings_file, environ, argv, config, api_key,
                   client, entered_key, user_message, interaction_history,
                   history_file, calls, last_request, hist_base, hist_written,
                   settings_vars>>

NextRender == \E n \in {Nothing} \cup {Some(k) : k \in 0..MaxShown} : RenderHistory(n)

SpecRender == InitRender /\ [][NextRender]_vars

(***************************************************************************)
(* The settings store on its own: load_settings, and the rewrite of the    *)
(* api_key field by request_for_api_key, applied to a settings file.       *)
(***************************************************************************)
MaxSettingsCalls == 2

\* settings whose values need escaping when written
QuotedSettings ==
    [KeyedSettings EXCEPT !.user_name = <<"A", "\"", "\\", "n">>,
                          !.assistant_name = <<"E", "\n">>]

Restrict(doc, keys) == [k \in keys |-> doc[k]]

\* settings files the store may start from
SettingsStoreFiles ==
    {SettingsAbsent, SettingsEmpty, SettingsGarbage, File(<<"\n">>),
     File(<<"{", "\"", "model", "\"", "}">>), SettingsObject(QuotedSettings)}
    \cup {SettingsObject(Without(QuotedSettings, key)) : key \in DOMAIN QuotedSettings}
    \cup {SettingsObject(Restrict(KeyedSettings, keys)) : keys \in SUBSET DOMAIN KeyedSettings}

InitSettings ==
    /\ pc = "Idle" /\ exit_code = Nothing /\ console = <<>>
    /\ settings_file \in SettingsStoreFiles
    /\ environ = Nothing /\ argv = <<>>
    /\ config = Nothing /\ api_key = <<>> /\ client = Nothing /\ entered_key = <<>>
    /\ user_message = <<>> /\ interaction_history = <<>>
    /\ history_file = NoFile
    /\ calls = 0 /\ last_request = <<>>
    /\ hist_base = history_file /\ hist_written = <<>> /\ hist_op = "start"
    /\ hist_limit = Nothing /\ hist_loaded = <<>>
    /\ set_calls = <<>>

\* a call of the settings store: the file it found, and what it gave back
SettingsCall(op, before, result) ==
    [op |-> op, before |-> before, raised |-> result.raised, key |-> result.key,
     config |-> result.config, after |-> result.file]

\* config = load_settings(SETTINGS_FILE)
SettingsLoad ==
    /\ Len(set_calls) < MaxSettingsCalls
    /\ LET result == load_settings(settings_file)
       IN  /\ settings_file' = result.file
           /\ set_calls' = Append(set_calls, SettingsCall("load", settings_file, result))
    /\ UNCHANGED <<pc, exit_code, console, environ, argv, config, api_key, client,
                   entered_key, user_message, interaction_history, history_file,
                   calls, last_request, store_vars>>

\* request_for_api_key saving the key the user entered
SettingsSaveKey(key) ==
    /\ Len(set_calls) < MaxSettingsCalls
    /\ LET result == [raised |-> "", key |-> "", config |-> Nothing,
                      file |-> save_api_key(settings_file, key)]
       IN  /\ settings_file' = result.file
           /\ set_calls' = Append(set_calls, SettingsCall("save", settings_file, result))
    /\ UNCHANGED <<pc, exit_code, console, environ, argv, config, api_key, client,
                   entered_key, user_message, interaction_history, history_file,
                   calls, last_request, store_vars>>

NextSettings ==
    \/ SettingsLoad
    \/ \E key \in {<<"u", "k">>, <<"\"">>} : SettingsSaveKey(key)

SpecSettings == InitSettings /\ [][NextSettings]_vars

(***************************************************************************)
(* Properties.                                                             *)
(***************************************************************************)
EndsWith(text, suffix) ==
    /\ Len(text) >= Len(suffix)
    /\ SubSeq(text, Len(text) - Len(suffix) + 1, Len(text)) = suffix

LogLine(turn) == json_dumps(turn) \o <<"\n">>

FirstText(lines) == IF Len(lines) = 0 THEN "" ELSE lines[1].text

LastK(seq, k) == SubSeq(seq, IF Len(seq) > k THEN Len(seq) - k + 1 ELSE 1, Len(seq))

\* C1: whenever a turn's update has finished and the loop is back at the prompt,
\* the in-memory window holds at most INTERACTION_HISTORY_LIMIT turns.
C1_WindowBounded ==
    pc = "AwaitingInput" => Len(interaction_history) <= INTERACTION_HISTORY_LIMIT

\* C2: a step in which the completion call raises finds the user turn as the
\* last line of the log, appends exactly the sentinel turn after it, leaves the
\* session running, clears the input and shows the next prompt.
C2_FailedCompletion ==
    [][CompletionRaises =>
          /\ EndsWith(history_file.text,
                      LogLine([role |-> "user", content |-> user_message]))
          /\ history_file'.text = history_file.text \o LogLine(Sentinel)
          /\ pc' = "AwaitingInput"
          /\ exit_code' = Nothing
          /\ user_message' = <<>>
          /\ console'[Len(console')] = Prompt(Value(config))]_vars

\* C2 witness: back at the prompt after a failed completion, the log ending
\* with a user turn and the sentinel.
C2_Witness ==
    /\ pc = "AwaitingInput"
    /\ FirstText(console) = "Error generating response: {error}"
    /\ EndsWith(history_file.text,
                LogLine([role |-> "user", content |-> <<"H", "i">>]) \o LogLine(Sentinel))

FirstToken == split(lower(user_message))[1]

IsMetaCommand ==
    /\ Len(split(lower(user_message))) > 0
    /\ \/ FirstToken \in EXIT_COMMANDS
       \/ FirstToken = W_help
       \/ FirstToken = W_history

\* C3: a step that dispatches an input whose first token, in lower case, is an
\* exit synonym, help or history issues no completion call and changes neither
\* the log nor the window; for help and history the step, unless it is an
\* interrupt, returns to AwaitingInput with the input cleared.
C3_MetaCommands ==
    [][(pc = "Dispatching" /\ IsMetaCommand) =>
          /\ calls' = calls
          /\ last_request' = last_request
          /\ history_file' = history_file
          /\ interaction_history' = interaction_history
          /\ (FirstToken \notin EXIT_COMMANDS /\ ~Interrupt) =>
                 (pc' = "AwaitingInput" /\ user_message' = <<>>)]_vars

\* C3 witness: a history command given in a session with a loadable log has
\* been served and the loop is back at the prompt.
C3_Witness ==
    /\ pc = "AwaitingInput"
    /\ FirstText(console) = "## Last message"
    /\ user_message = <<>>
    /\ calls = 0

\* C4: an exited session has status 0 or 1 and a running one has none; an
\* interrupt is possible in every running state and exits with 0, as does the
\* exit command; declining to set the API key, a settings error and an error
\* in the loop exit with 1.
C4_ExitCodes ==
    /\ [](pc = "Exited" <=> IsSome(exit_code))
    /\ [](pc = "Exited" => exit_code \in {Some(0), Some(1)})
    /\ [](pc \in Running => ENABLED Interrupt)
    /\ [][(Interrupt \/ DispatchExit) => (pc' = "Exited" /\ exit_code' = Some(0))]_vars
    /\ [][(pc \in {"Start", "AskSetKey", "Dispatching"} /\ pc' = "Exited"
           /\ ~Interrupt /\ ~DispatchExit) => exit_code' = Some(1)]_vars
    /\ [][(pc' = "Exited" /\ pc # "Exited") =>
             (exit_code' = Some(0)) =
                 (FirstText(console') \in {"Goodbye! See you later.",
                                           "Session ended. Goodbye!"})]_vars

\* C4 witness: a session interrupted while the completion call was pending.
C4_Witness ==
    /\ pc = "Exited"
    /\ exit_code = Some(0)
    /\ FirstText(console) = "Session ended. Goodbye!"
    /\ calls = 1
    /\ Len(interaction_history) = 1

\* C5: when the settings hold no API key and one is obtained from the
\* environment or the prompt, the client is constructed with the obtained key.
C5_ClientKey ==
    (IsSome(client) /\ Len(api_key) = 0) =>
        /\ Value(client) = Value(config).api_key
        /\ Len(Value(client)) > 0

\* C6: every input that reaches Dispatching has at least one token.
C6_NoEmptyDispatch ==
    pc = "Dispatching" => Len(split(lower(user_message))) > 0

ParseFails(line) == Len(line) > 0 /\ ~json_loads(line).ok

\* C7: load_history with limit k returns the last k entries of the full load,
\* and all of them when k is at least their number.
C7_TailOfFull ==
    (hist_op = "load" /\ IsSome(hist_limit)) =>
        hist_loaded = LastK(load_history(history_file, Nothing), Value(hist_limit))

\* C8: a load of a missing or empty file, or of a file one of whose non-empty
\* lines fails to parse, returns the empty sequence, with or without a limit.
C8_AllOrNothing ==
    (/\ hist_op = "load"
     /\ \/ ~history_file.exists
        \/ Len(history_file.text) = 0
        \/ \E i \in 1..Len(read_lines(history_file.text)) :
               ParseFails(read_lines(history_file.text)[i]))
    => Len(hist_loaded) = 0

\* C9: turns written with write_to_history to an empty or missing history
\* file are returned by a full load_history, in the order written.
C9_RoundTrip ==
    (Len(hist_base.text) = 0 /\ hist_op = "load" /\ ~IsSome(hist_limit)) =>
        hist_loaded = hist_written

\* C9 witness: two turns, one with a newline in its content, written and read.
C9_Witness ==
    /\ Len(hist_base.text) = 0
    /\ hist_op = "load" /\ ~IsSome(hist_limit)
    /\ Len(hist_written) = 2
    /\ hist_written[2] = ReplyOk
    /\ hist_loaded = hist_written

\* C10: every step of a session leaves the log as it is or adds one line
\* holding one turn at its end.
C10_AppendOnly ==
    [][LET old == history_file.text
           new == history_file'.text
           added == SubSeq(new, Len(old) + 1, Len(new))
       IN  \/ new = old
           \/ /\ Len(new) > Len(old)
              /\ SubSeq(new, 1, Len(old)) = old
              /\ Len(file_lines(added)) = 1
              /\ added[Len(added)] = "\n"
              /\ Len(load_history(File(added), Nothing)) = 1]_vars

\* C10 witness: a session has added a whole exchange to a log that held turns.
C10_Witness ==
    /\ Len(hist_base.text) > 0
    /\ Len(history_file.text) > Len(hist_base.text)
    /\ calls = 2
    /\ pc = "AwaitingInput"

(***************************************************************************)
(* The settings store (C11 to C14), read off the calls recorded in         *)
(* set_calls.                                                              *)
(***************************************************************************)
LoadCalls == {i \in DOMAIN set_calls : set_calls[i].op = "load"}

\* complete settings documents
FullSettings ==
    {DEFAULT_SETTINGS, KeyedSettings, QuotedSettings,
     [KeyedSettings EXCEPT !.api_key = <<"u", "k">>],
     [KeyedSettings EXCEPT !.api_key = <<"\"">>]}

\* the file is non-empty but is not a JSON document
Corrupt(file) ==
    file \in {SettingsGarbage, File(<<"\n">>), File(<<"{", "\"", "model", "\"", "}">>)}

\* the file holds a complete settings document with the default values
HoldsDefaults(file) == file.exists /\ file.text = json_dump(DEFAULT_SETTINGS)

\* C11: load_settings on a file holding a JSON object that lacks exactly one
\* required key raises ValueError naming exactly that key, returns no
\* settings (no defaults either) and leaves the file as it was.
C11_MissingKeyNamed ==
    \A i \in LoadCalls : \A doc \in FullSettings : \A key \in DOMAIN doc :
        set_calls[i].before = SettingsObject(Without(doc, key))
        => /\ set_calls[i].raised = "ValueError"
           /\ set_calls[i].key = key
           /\ set_calls[i].config = Nothing
           /\ set_calls[i].after = set_calls[i].before

C11_Witness ==
    \E i \in LoadCalls :
        /\ set_calls[i].before = SettingsObject(Without(QuotedSettings, "assistant_name"))
        /\ set_calls[i].raised = "ValueError"
        /\ set_calls[i].key = "assistant_name"

\* C12: load_settings on an absent file returns the defaults and creates the
\* file with those values; a second load_settings, on the created file,
\* returns the same values as the first and leaves the file alone.
C12_AbsentThenIdempotent ==
    \A i \in LoadCalls :
        ~set_calls[i].before.exists
        => /\ set_calls[i].raised = ""
           /\ set_calls[i].config = Some(DEFAULT_SETTINGS)
           /\ HoldsDefaults(set_calls[i].after)
           /\ (i + 1 \in LoadCalls
               => /\ set_calls[i + 1].before = set_calls[i].after
                  /\ set_calls[i + 1].raised = ""
                  /\ set_calls[i + 1].config = set_calls[i].config
                  /\ set_calls[i + 1].after = set_calls[i].after)

C12_Witness ==
    /\ Len(set_calls) = 2 /\ LoadCalls = {1, 2}
    /\ ~set_calls[1].before.exists
    /\ set_calls[2].config = Some(DEFAULT_SETTINGS)

\* C13: load_settings leaves a settings file that exists and is not empty
\* exactly as it was, whether it holds complete settings, settings lacking a
\* key, or no JSON at all; a load changes the file only when the file was
\* absent or empty, and then the file holds the defaults.
C13_NonEmptyKept ==
    \A i \in LoadCalls :
        /\ (set_calls[i].before.exists /\ Len(set_calls[i].before.text) > 0)
           => set_calls[i].after = set_calls[i].before
        /\ set_calls[i].after # set_calls[i].before
           => /\ ~set_calls[i].before.exists \/ Len(set_calls[i].before.text) = 0
              /\ HoldsDefaults(set_calls[i].after)

C13_Witness ==
    /\ Len(set_calls) = 2 /\ LoadCalls = {1, 2}
    /\ set_calls[1].before = SettingsGarbage
    /\ set_calls[2].config = Some(DEFAULT_SETTINGS)
    /\ set_calls[2].after = SettingsGarbage

\* C14 as stated: whenever load_settings substitutes the defaults because the
\* file is missing or corrupt, the file holds the defaults afterwards.
C14_DefaultsPersisted ==
    \A i \in LoadCalls :
        (~set_calls[i].before.exists \/ Len(set_calls[i].before.text) = 0
             \/ Corrupt(set_calls[i].before))
        => /\ set_calls[i].config = Some(DEFAULT_SETTINGS)
           /\ HoldsDefaults(set_calls[i].after)

\* C14 amended: load_settings substitutes the defaults whenever the file is
\* missing, empty or corrupt; the defaults are persisted when the file is
\* missing or empty, and a non-empty corrupt file stays on disk unchanged.
C14_DefaultsPersistedUnlessNonEmpty ==
    \A i \in LoadCalls :
        /\ (~set_calls[i].before.exists \/ Len(set_calls[i].before.text) = 0)
           => /\ set_calls[i].config = Some(DEFAULT_SETTINGS)
              /\ HoldsDefaults(set_calls[i].after)
        /\ Corrupt(set_calls[i].before)
           => /\ set_calls[i].config = Some(DEFAULT_SETTINGS)
              /\ set_calls[i].after = set_calls[i].before

C14_Witness ==
    \E i \in LoadCalls :
        /\ set_calls[i].before = File(<<"{", "\"", "model", "\"", "}">>)
        /\ set_calls[i].config = Some(DEFAULT_SETTINGS)
        /\ set_calls[i].after = set_calls[i].before

(***************************************************************************)
(* The history command (C15).                                              *)
(***************************************************************************)
Min(a, b) == IF a <= b THEN a ELSE b

\* the heading the history command shows for argument n
HeadingFor(n) ==
    IF ~IsSome(n) \/ Value(n) = 0 THEN Msg("## Full conversation history")
    ELSE IF Value(n) = 1 THEN Msg("## Last message")
    ELSE Line("## Last {n} messages", <<>>, <<>>, n)

\* the line the history command shows for a turn
TurnLine(turn) ==
    Line("**{name}**: {content}",
         IF turn.role = "user" THEN DEFAULT_SETTINGS.user_name
         ELSE DEFAULT_SETTINGS.assistant_name,
         turn.content, Nothing)

\* C15: on a history of m > 0 turns the history command shows all m turns
\* under "Full conversation history" when n is absent or 0, the last turn
\* under "Last message" when n = 1, and the last min(n, m) turns in log order
\* under "Last n messages" when n > 1; on an empty or unloadable history it
\* shows the "No conversations found" notice alone, whatever n is.
C15_HistoryRendering ==
    hist_op = "print" =>
        LET history == load_history(history_file, Nothing)
            m == Len(history)
            count == IF ~IsSome(hist_limit) \/ Value(hist_limit) = 0 THEN m
                     ELSE Min(Value(hist_limit), m)
        IN  IF m = 0
            THEN console =
                     <<Msg("No conversations found. Start a discussion to create history!")>>
            ELSE /\ Len(console) = count + 3
                 /\ console[1] = HeadingFor(hist_limit)
                 /\ console[2] = Msg("***")
                 /\ \A i \in 1..count : console[2 + i] = TurnLine(history[m - count + i])
                 /\ console[count + 3] = Msg("***")

C15_Witness ==
    /\ hist_op = "print" /\ hist_limit = Some(2)
    /\ Len(load_history(history_file, Nothing)) = 3
    /\ Len(console) = 5
    /\ console[3] = TurnLine(ReplyOk)
    /\ console[4] = TurnLine(UserHi)

(***************************************************************************)
(* The window in long sessions (C16, C17).                                 *)
(***************************************************************************)
\* the turns the log holds
Logged == load_history(history_file, Nothing)

\* no completion call is in progress
BetweenTurns == pc \in {"AwaitingInput", "Dispatching"}

\* C16: in a session that found no history, once N message turns have all
\* completed successfully (help and history commands in between or not), the
\* window holds min(2N, INTERACTION_HISTORY_LIMIT) turns, and they are the
\* last that many turns of the conversation, in order.
C16_WindowIsTail ==
    (BetweenTurns /\ ~hist_base.exists)
    => LET conversation == Logged
       IN  (\A i \in DOMAIN conversation : conversation[i] # Sentinel)
           => /\ Len(conversation) = 2 * calls
              /\ Len(interaction_history) = Min(2 * calls, INTERACTION_HISTORY_LIMIT)
              /\ interaction_history =
                     LastK(conversation, Min(2 * calls, INTERACTION_HISTORY_LIMIT))

C16_Witness ==
    /\ BetweenTurns /\ ~hist_base.exists
    /\ \A i \in DOMAIN Logged : Logged[i] # Sentinel
    /\ calls = 6
    /\ Len(interaction_history) = INTERACTION_HISTORY_LIMIT
    /\ interaction_history[1].role = "user"
    /\ interaction_history[2].content = <<"n", "o">>
    /\ interaction_history[4] = ReplyOk

\* the window the session started with
InitialWindow == load_history(hist_base, Some(INTERACTION_HISTORY_LIMIT))

\* the number of sentinel turns among the turns
RECURSIVE Sentinels(_)
Sentinels(turns) ==
    IF Len(turns) = 0 THEN 0
    ELSE (IF Head(turns) = Sentinel THEN 1 ELSE 0) + Sentinels(Tail(turns))

\* every completion call of the session has failed
AllFailed == Sentinels(Logged) = calls

\* the step drops turns from the window
Truncates ==
    \/ Len(interaction_history') < Len(interaction_history)
    \/ SubSeq(interaction_history', 1, Len(interaction_history)) # interaction_history

\* C17: a step drops turns from the window only if it is the return of a
\* successful completion; the step of a failed completion leaves the window,
\* whose last turn is the user turn just added, as it is, and help and history
\* commands leave it as it is; so once k completions have failed and none has
\* succeeded, a window that started with w turns holds w + k.
C17_TruncationOnlyOnSuccess ==
    /\ [][/\ Truncates => \E reply \in LongReplies : CompletionReturns(reply)
          /\ CompletionRaises
             => /\ interaction_history' = interaction_history
                /\ interaction_history[Len(interaction_history)] =
                       [role |-> "user", content |-> user_message]
          /\ (pc = "Dispatching" /\ IsMetaCommand)
             => interaction_history' = interaction_history]_vars
    /\ []((BetweenTurns /\ AllFailed)
           => Len(interaction_history) = Len(InitialWindow) + calls)

C17_Witness ==
    /\ BetweenTurns /\ AllFailed
    /\ calls = 3
    /\ Len(InitialWindow) = 8
    /\ Len(interaction_history) = 11

(***************************************************************************)
(* The order of a message turn (C18).                                      *)
(***************************************************************************)
\* the system message of a session run with KeyedSettings
KeyedSystemTurn ==
    [role |-> "system",
     content |-> <<"You are ", "Electron", ", a command line AI assistant for ",
                   "User", " who knows everything.">>]

UserTurn == [role |-> "user", content |-> user_message]

\* C18: the step that issues a completion call first appends the user turn to
\* the window and to the log; while the call is in progress the request it
\* received is the system message followed by the whole window, whose last
\* element is that user turn, and the log ends with that turn; an assistant
\* turn joins the window only in the step in which the call returns, which
\* appends it to the log as well and issues no call.
C18_TurnOrder ==
    /\ [](pc = "Completing"
           => /\ last_request = <<KeyedSystemTurn>> \o interaction_history
              /\ interaction_history[Len(interaction_history)] = UserTurn
              /\ EndsWith(history_file.text, LogLine(UserTurn)))
    /\ [][/\ calls' # calls
             => /\ calls' = calls + 1
                /\ pc' = "Completing"
                /\ interaction_history' = Append(interaction_history, UserTurn)
                /\ history_file'.text = history_file.text \o LogLine(UserTurn)
          /\ (/\ pc # "Start"
              /\ interaction_history' # interaction_history
              /\ interaction_history'[Len(interaction_history')].role = "assistant")
             => /\ pc = "Completing"
                /\ calls' = calls
                /\ \E reply \in LongReplies :
                       LET turn == [role |-> "assistant", content |-> reply]
                       IN  /\ interaction_history' =
                                  LastK(Append(interaction_history, turn),
                                        INTERACTION_HISTORY_LIMIT)
                           /\ history_file'.text = history_file.text \o LogLine(turn)]_vars

C18_Witness ==
    /\ pc = "Completing"
    /\ Len(last_request) = 12
    /\ last_request[1] = KeyedSystemTurn
    /\ last_request[12] = [role |-> "user", content |-> <<"H", "i">>]
    /\ last_request[11] = [role |-> "assistant", content |-> <<"n", "o">>]

(***************************************************************************)
(* The log of one session (C19).                                           *)
(***************************************************************************)
\* the turns this session has written to the log, in order
WrittenTurns ==
    load_history(File(SubSeq(history_file.text, Len(hist_base.text) + 1,
                             Len(history_file.text))), Nothing)

\* C19: the turns a session has written to the log alternate, user turn first:
\* each completion call has put one user turn there, followed by one assistant
\* turn (the reply or the sentinel) unless it is the last turn written and the
\* call is still in progress or the session ended during it.
C19_LogAlternates ==
    LET written == WrittenTurns
    IN  /\ \A i \in DOMAIN written :
               written[i].role = IF i % 2 = 1 THEN "user" ELSE "assistant"
        /\ IF pc = "Completing" THEN Len(written) = 2 * calls - 1
           ELSE IF pc = "Exited" THEN Len(written) \in {2 * calls - 1, 2 * calls}
           ELSE Len(written) = 2 * calls

C19_Witness ==
    /\ pc = "Exited" /\ exit_code = Some(0)
    /\ calls = 2
    /\ Len(WrittenTurns) = 3
    /\ WrittenTurns[2] = Sentinel
    /\ WrittenTurns[3].role = "user"

(***************************************************************************)
(* The sentinel and the completion call (C20).                             *)
(***************************************************************************)
\* C20: no completion call receives the sentinel turn among the turns sent,
\* neither in the session that wrote it nor in a later session that loads its
\* window from the tail of the same log.
C20_SentinelNeverSent ==
    \A i \in DOMAIN last_request : last_request[i] # Sentinel

====
